---- MODULE Spec2Model ----
(***************************************************************************)
(* Model of src/rust/src/lib.rs of the iani crate: the GWAS summary        *)
(* statistics API client (GwasClient), the gwas_* functions exported to R, *)
(* and the parallel batch downloader gwas_download_summary_stats_files.    *)
(*                                                                         *)
(* The state machines of the module:                                       *)
(*   Spec / FairSpec  the batch downloader: the calling thread, and one    *)
(*                    process per download task run by the rayon pool;     *)
(*   ClientSpec       one gwas_* resource call after another, each a       *)
(*                    blocking GET followed by response.json();            *)
(*   LibrarySpec      either of the two, as the exported functions allow;  *)
(*   RequestSpec      an association function building its parameters and  *)
(*                    URL and sending its GET;                             *)
(*   UrlSpec          build_url applied to bases, endpoints and maps;      *)
(*   RouterSpec       the caller-facing layer (p-value range               *)
(*                    normalization, scoped-associations routing) in front *)
(*                    of the association functions.                        *)
(***************************************************************************)
EXTENDS Integers, Sequences, FiniteSets, TLC

(***************************************************************************)
(* Bounds of the model.                                                    *)
(***************************************************************************)
\* Longest input vector (file_urls, output_paths) explored.
MaxTasks == 3

\* Threads of rayon's global pool (by default the number of logical CPUs of
\* the host): par_iter() runs at most this many closures at once.
NumThreads == 2

(***************************************************************************)
(* Program constants.                                                      *)
(***************************************************************************)
\* max_concurrent.unwrap_or(4)
DefaultMaxConcurrent == 4

\* Option<T>: None, Some(x).
None == <<>>
Some(x) == <<x>>

(***************************************************************************)
(* Inputs.                                                                 *)
(***************************************************************************)
\* The i-th source URL of a batch.
UrlOf(i) == <<"url", i>>

\* The destination path that is task i's own: a bare file name for the
\* first, a file inside a directory that does not exist yet for the others.
PathOf(i) == IF i = 1 THEN <<"a">> ELSE <<"d", i>>

PATHS == {PathOf(i) : i \in 1..MaxTasks}

\* Path::new(output_path).parent(): Some("") for a bare file name.
Parent(p) == IF Len(p) = 1 THEN "" ELSE p[1]

\* The output_paths vectors explored: pairwise distinct destinations, of
\* every length up to MaxTasks, and one vector that names the same
\* destination twice.
PathVectors ==
    {[i \in 1..m |-> PathOf(i)] : m \in 0..MaxTasks}
    \cup {<<PathOf(1), PathOf(1)>>}

\* Option<usize>: None, or Some(k).
KValues == {None, Some(1)}

(***************************************************************************)
(* HTTP: what a GET can come back with.  reqwest's send() is Ok for every  *)
(* response that arrives, whatever its status; it is Err only when no      *)
(* response arrives (connect, DNS, timeout, redirect loop).                *)
(***************************************************************************)
Statuses == {200, 404}

\* The complete body the server sends for url.
Body(url) == <<"body", url>>

\* File contents: no file, the content present before the call, an empty
\* (just created or truncated) file, some proper prefix of a body (what a
\* copy that failed has written), a body.
NoFile == <<"nofile">>
OldContent == <<"old">>
Empty == <<"empty">>
Partial(url) == <<"partial", url>>

VARIABLES
    \* ---- gwas_download_summary_stats_files ----
    file_urls,       \* argument: Vec<String>
    output_paths,    \* argument: Vec<String>
    max_concurrent,  \* argument: Option<usize>
    pc,              \* position of the calling thread
    client,          \* whether GwasClient::new() has run
    tpc,             \* position of each download task
    resp,            \* status of the response each task's GET received (0: none)
    gets,            \* number of GETs each task has issued
    results,         \* the collected Vec<Result<String, String>>, by index
    files,           \* the filesystem: content at each path
    dirs,            \* the filesystem: directories that exist
    ret,             \* value returned to the caller
    \* ---- gwas_get_* / gwas_list_* ----
    cop,             \* the exported function being run
    cpc,             \* its position
    cresp,           \* the response its GET received
    cgets,           \* number of GETs the call has issued
    cres,            \* the Result the GwasClient method returned
    cret,            \* the String returned to R
    \* ---- building a request ----
    rpc,             \* position of the call whose request is being built
    rkind,           \* scoped associations: the kind tag (Option)
    rid,             \* scoped associations: the id (Option)
    rpvalue,         \* the p-value range the caller gave (two Options)
    rfn,             \* the GwasClient method the exported function wraps
    rargs,           \* the exported function's arguments
    rbase,           \* GwasClient.base_url
    rendpoint,       \* build_url's endpoint argument
    rparams,         \* the HashMap<String, String> of query parameters
    rurl,            \* the Result<Url> of build_url
    rgets,           \* number of GETs issued
    rret             \* error returned without a request

batchVars == <<file_urls, output_paths, max_concurrent, pc, client, tpc, resp,
               gets, results, files, dirs, ret>>
callVars == <<cop, cpc, cresp, cgets, cres, cret>>
reqVars == <<rpc, rkind, rid, rpvalue, rfn, rargs, rbase, rendpoint, rparams, rurl,
             rgets, rret>>
vars == <<batchVars, callVars, reqVars>>

(***************************************************************************)
(* Resource calls: the exported gwas_get_* and gwas_list_* functions, each *)
(* of which wraps one GwasClient method.                                   *)
(***************************************************************************)
\* Methods whose return type is a HalResponse<..> envelope.
EnvelopeOps ==
    {"get_associations", "get_variant_associations", "get_chromosomes",
     "get_chromosome_associations", "get_chromosome_variant_associations",
     "get_studies", "get_study_associations", "get_traits",
     "get_trait_associations", "get_trait_studies",
     "get_trait_study_associations", "get_study_summary_stats_files",
     "get_trait_summary_stats_files", "get_trait_study_summary_stats_files"}

\* Methods whose return type is a bare Chromosome, Study or Trait.
EntityOps == {"get_chromosome", "get_study", "get_trait", "get_trait_study"}

Ops == EnvelopeOps \cup EntityOps

\* content-type headers a response may carry (None: no header): two that
\* contain "application/json" and one that does not.
JsonTypes == {Some("application/json"), Some("application/json; charset=utf-8")}
OtherTypes == {Some("text/html")}
ContentTypes == {None} \cup JsonTypes \cup OtherTypes

\* Bodies a response may carry: bytes that are not JSON, the object {}, an
\* envelope of the shape the method expects ("_embedded" and "_links"), the
\* entity object the method expects (its identifying field and "_links").
Bodies == {"not_json", "empty_object", "envelope", "entity"}

NoResp == [status |-> 0, ctype |-> None, body |-> "none"]
NoRes == [ok |-> FALSE, done |-> FALSE, data |-> "none", err |-> "none"]
NoCRet == [kind |-> "none", tag |-> "none", data |-> "none", cause |-> "none"]

\* Ok(data), Err(e) of a GwasClient method.
OkRes(d) == [ok |-> TRUE, done |-> TRUE, data |-> d, err |-> "none"]
ErrRes(e) == [ok |-> FALSE, done |-> TRUE, data |-> "none", err |-> e]

\* serde_json on HalResponse<T>: both fields are Option and unknown fields
\* are ignored, so every JSON object without "_embedded" decodes, to an
\* envelope with embedded = None.
DecodeEnvelope(body) ==
    CASE body = "not_json" -> ErrRes("decode")
      [] body = "empty_object" -> OkRes("empty_envelope")
      [] body = "entity" -> OkRes("empty_envelope")
      [] body = "envelope" -> OkRes("envelope")

\* serde_json on Chromosome, Study, Trait: the identifying String field is
\* required.
DecodeEntity(body) ==
    CASE body = "not_json" -> ErrRes("decode")
      [] body = "empty_object" -> ErrRes("decode")
      [] body = "envelope" -> ErrRes("decode")
      [] body = "entity" -> OkRes("entity")

\* let data: T = response.json()?; Ok(data)
\* Neither the status nor the content-type of the response is read.
ResponseJson(op, r) ==
    IF op \in EnvelopeOps THEN DecodeEnvelope(r.body) ELSE DecodeEntity(r.body)

\* The text before ": {e}" in the wrapper's Err arm.
ErrorTag(op) ==
    CASE op = "get_associations" -> "Error fetching associations"
      [] op = "get_variant_associations" -> "Error fetching variant associations"
      [] op = "get_chromosomes" -> "Error fetching chromosomes"
      [] op = "get_chromosome" -> "Error fetching chromosome"
      [] op = "get_chromosome_associations" -> "Error fetching chromosome associations"
      [] op = "get_chromosome_variant_associations" ->
             "Error fetching chromosome variant associations"
      [] op = "get_studies" -> "Error fetching studies"
      [] op = "get_study" -> "Error fetching study"
      [] op = "get_study_associations" -> "Error fetching study associations"
      [] op = "get_traits" -> "Error fetching traits"
      [] op = "get_trait" -> "Error fetching trait"
      [] op = "get_trait_associations" -> "Error fetching trait associations"
      [] op = "get_trait_studies" -> "Error fetching trait studies"
      [] op = "get_trait_study" -> "Error fetching trait study"
      [] op = "get_trait_study_associations" ->
             "Error fetching trait study associations"
      [] op = "get_study_summary_stats_files" ->
             "Error fetching summary statistics files"
      [] op = "get_trait_summary_stats_files" ->
             "Error fetching trait summary statistics files"
      [] op = "get_trait_study_summary_stats_files" ->
             "Error fetching trait-study summary statistics files"

\* match client.get_x(..) {
\*     Ok(data) => serde_json::to_string_pretty(&data)...,
\*     Err(e) => format!("Error fetching ...: {e}") }
Wrap(op, res) ==
    IF res.ok
    THEN [kind |-> "payload", tag |-> "none", data |-> res.data, cause |-> "none"]
    ELSE [kind |-> "error", tag |-> ErrorTag(op), data |-> "none", cause |-> res.err]

(***************************************************************************)
(* Building a request: the parameter map of the exported association       *)
(* functions, the endpoint of each GwasClient method, and build_url.       *)
(* A URL or path is a sequence of tokens, "/" being a token of its own and *)
(* the scheme and authority one token; an id or a parameter value is one   *)
(* string.                                                                 *)
(***************************************************************************)
\* The exported functions that take association filters.
AssocOps ==
    {"get_associations", "get_variant_associations",
     "get_chromosome_associations", "get_chromosome_variant_associations",
     "get_study_associations", "get_trait_associations",
     "get_trait_study_associations"}

\* The optional parameters each of them declares.
CommonFields == {"start", "size", "reveal", "p_lower", "p_upper"}
FieldsOf(op) ==
    CASE op = "get_variant_associations" -> CommonFields \cup {"study_accession"}
      [] op = "get_chromosome_associations" ->
             CommonFields \cup {"bp_lower", "bp_upper", "study_accession", "trait_name"}
      [] op = "get_chromosome_variant_associations" ->
             CommonFields \cup {"study_accession", "trait_name"}
      [] OTHER -> CommonFields

AllFields == CommonFields \cup {"bp_lower", "bp_upper", "study_accession", "trait_name"}

\* Fields of type Option<i32> or Option<i64>; the others are Option<String>.
NumericFields == {"start", "size", "bp_lower", "bp_upper"}

\* The value explored for each field when it is present.  The study
\* accession holds a space, which the query encoding rewrites.
ValueOf(f) ==
    CASE f = "start" -> Some(0)
      [] f = "size" -> Some(10)
      [] f = "reveal" -> Some("all")
      [] f = "p_lower" -> Some("0.0")
      [] f = "p_upper" -> Some("1e-5")
      [] f = "bp_lower" -> Some(-1)
      [] f = "bp_upper" -> Some(2000000)
      [] f = "study_accession" -> Some("GCST 28")
      [] f = "trait_name" -> Some("EFO_0001")

\* The ids (required String arguments) of a method: first and second.
IdsOf(op) ==
    CASE op \in {"get_associations", "get_chromosomes", "get_studies", "get_traits"} ->
             <<>>
      [] op \in {"get_variant_associations"} -> <<"rs123">>
      [] op \in {"get_chromosome", "get_chromosome_associations"} -> <<"1">>
      [] op = "get_chromosome_variant_associations" -> <<"1", "rs123">>
      [] op \in {"get_study", "get_study_associations",
                 "get_study_summary_stats_files"} -> <<"GCST000028">>
      [] op \in {"get_trait", "get_trait_associations", "get_trait_studies",
                 "get_trait_summary_stats_files"} -> <<"EFO_0001">>
      [] OTHER -> <<"EFO_0001", "GCST000028">>

NoArgs == [ids |-> <<>>, opt |-> [f \in AllFields |-> None]]

\* Every way of supplying or omitting the optional parameters of op.
ArgsFor(op) ==
    {[ids |-> IdsOf(op),
      opt |-> [f \in AllFields |-> IF f \in S THEN ValueOf(f) ELSE None]] :
        S \in SUBSET FieldsOf(op)}

\* The key a field is inserted under.
KeyOf(f) == IF f = "trait_name" THEN "trait" ELSE f

\* s.to_string() of an i32 or i64
to_string(n) == ToString(n)

\* Mutant of Params: the trait filter is inserted under the argument's name.
ParamsTraitName(op, a) ==
    LET present == {f \in FieldsOf(op) : a.opt[f] # None}
        field(k) == CHOOSE f \in present : f = k
    IN  [k \in present |->
            IF field(k) \in NumericFields
            THEN to_string(a.opt[field(k)][1]) ELSE a.opt[field(k)][1]]

\* let mut params = HashMap::new();
\* if let Some(s) = start { params.insert("start".to_string(), s.to_string()); }
\* ... one such line per optional parameter of the function.
Params(op, a) ==
    LET present == {f \in FieldsOf(op) : a.opt[f] # None}
        field(k) == CHOOSE f \in present : KeyOf(f) = k
    IN  [k \in {KeyOf(f) : f \in present} |->
            IF field(k) \in NumericFields
            THEN to_string(a.opt[field(k)][1]) ELSE a.opt[field(k)][1]]

\* The format!("/...") of each method.
Endpoint(op, ids) ==
    CASE op = "get_associations" -> <<"/", "associations">>
      [] op = "get_variant_associations" -> <<"/", "associations", "/", ids[1]>>
      [] op = "get_chromosomes" -> <<"/", "chromosomes">>
      [] op = "get_chromosome" -> <<"/", "chromosomes", "/", ids[1]>>
      [] op = "get_chromosome_associations" ->
             <<"/", "chromosomes", "/", ids[1], "/", "associations">>
      [] op = "get_chromosome_variant_associations" ->
             <<"/", "chromosomes", "/", ids[1], "/", "associations", "/", ids[2]>>
      [] op = "get_studies" -> <<"/", "studies">>
      [] op = "get_study" -> <<"/", "studies", "/", ids[1]>>
      [] op = "get_study_associations" ->
             <<"/", "studies", "/", ids[1], "/", "associations">>
      [] op = "get_traits" -> <<"/", "traits">>
      [] op = "get_trait" -> <<"/", "traits", "/", ids[1]>>
      [] op = "get_trait_associations" ->
             <<"/", "traits", "/", ids[1], "/", "associations">>
      [] op = "get_trait_studies" -> <<"/", "traits", "/", ids[1], "/", "studies">>
      [] op = "get_trait_study" ->
             <<"/", "traits", "/", ids[1], "/", "studies", "/", ids[2]>>
      [] op = "get_trait_study_associations" ->
             <<"/", "traits", "/", ids[1], "/", "studies", "/", ids[2], "/",
               "associations">>
      [] op = "get_study_summary_stats_files" ->
             <<"/", "studies", "/", ids[1], "/", "summary-statistics">>
      [] op = "get_trait_summary_stats_files" ->
             <<"/", "traits", "/", ids[1], "/", "summary-statistics">>
      [] op = "get_trait_study_summary_stats_files" ->
             <<"/", "traits", "/", ids[1], "/", "studies", "/", ids[2], "/",
               "summary-statistics">>

\* GwasClient::new(): "https://www.ebi.ac.uk/gwas/summary-statistics/api"
DefaultBase ==
    <<"https://www.ebi.ac.uk", "/", "gwas", "/", "summary-statistics", "/", "api">>

\* endpoint.trim_start_matches('/')
RECURSIVE trim_start_matches(_)
trim_start_matches(e) ==
    IF e # <<>> /\ Head(e) = "/" THEN trim_start_matches(Tail(e)) ELSE e

\* The first token names a scheme and an authority.
IsAbsolute(t) == t \in {"https://www.ebi.ac.uk", "http://localhost:8080"}

\* url.query_pairs_mut().append_pair(key, value): the value in
\* application/x-www-form-urlencoded form (a space becomes "+"; letters,
\* digits, "*", "-", "." and "_" stay).
FormEncode(v) == IF v = "GCST 28" THEN "GCST+28" ELSE v

NoUrl == [ok |-> FALSE, built |-> FALSE, origin |-> "none", path |-> <<>>, query |-> {}]
UrlErr == [ok |-> FALSE, built |-> TRUE, origin |-> "none", path |-> <<>>, query |-> {}]

\* Url::parse: Err for a string with no scheme; the path is kept as written
\* (empty segments are not removed).
UrlParse(str) ==
    IF str # <<>> /\ IsAbsolute(Head(str))
    THEN [ok |-> TRUE, built |-> TRUE, origin |-> Head(str), path |-> Tail(str),
          query |-> {}]
    ELSE UrlErr

\* Mutant of build_url: the endpoint is not trimmed.
build_url_untrimmed(base, endpoint, params) ==
    LET url == UrlParse(base \o <<"/">> \o endpoint)
    IN  IF url.ok
        THEN [url EXCEPT !.query = {<<k, FormEncode(params[k])>> : k \in DOMAIN params}]
        ELSE url

\* let mut url = Url::parse(&format!("{}/{}", self.base_url,
\*                                   endpoint.trim_start_matches('/')))?;
\* for (key, value) in params { url.query_pairs_mut().append_pair(key, value); }
\* The pairs are a set: a HashMap is iterated in no fixed order.
build_url(base, endpoint, params) ==
    LET url == UrlParse(base \o <<"/">> \o trim_start_matches(endpoint))
    IN  IF url.ok
        THEN [url EXCEPT !.query = {<<k, FormEncode(params[k])>> : k \in DOMAIN params}]
        ELSE url

NoParams == <<>>

\* No p-value range given.
NoRange == [min |-> None, max |-> None]

\* Nothing is being built.
ReqIdle ==
    /\ rpc = "idle" /\ rkind = None /\ rid = None /\ rfn = "none"
    /\ rpvalue = NoRange
    /\ rargs = NoArgs /\ rbase = <<>> /\ rendpoint = <<>> /\ rparams = NoParams
    /\ rurl = NoUrl /\ rgets = 0 /\ rret = "none"

\* No resource call is running.
CallIdle ==
    /\ cop = "none" /\ cpc = "idle" /\ cresp = NoResp /\ cgets = 0
    /\ cres = NoRes /\ cret = NoCRet

(***************************************************************************)
(* gwas_download_summary_stats_files                                       *)
(***************************************************************************)
Min(a, b) == IF a <= b THEN a ELSE b

\* par_iter().zip(): one task per index both vectors have.
NTasks == Min(Len(file_urls), Len(output_paths))
Tasks == 1..NTasks

\* A slot of the collected Vec<Result<String, String>>.
Pending == [ok |-> FALSE, done |-> FALSE, url |-> None, path |-> None, cause |-> "none"]
\* Ok(format!("Downloaded: {p}"))
OkResult(p) == [ok |-> TRUE, done |-> TRUE, url |-> None, path |-> Some(p), cause |-> "none"]
\* Err(format!("Failed to download {url}: {e}"))
ErrResult(url, e) == [ok |-> FALSE, done |-> TRUE, url |-> Some(url), path |-> None, cause |-> e]

NoRet == [kind |-> "none", success_count |-> 0, total |-> 0, error_messages |-> <<>>]
\* "Error: file_urls and output_paths must have the same length."
LengthMismatch == [kind |-> "error", success_count |-> 0, total |-> 0, error_messages |-> <<>>]

IsOk(r) == r.ok
IsErr(r) == ~r.ok

\* Mutant of success_count: the increment sits outside the match, so every
\* result is counted.
success_count_all(rs) == Len(rs)

\* Mutant of error_messages: each message is inserted at the front.
error_messages_reversed(rs) ==
    LET errs == SelectSeq(rs, IsErr)
    IN  [j \in 1..Len(errs) |-> errs[Len(errs) + 1 - j]]

\* The loop over results: success_count += 1 for an Ok, error_messages.push
\* for an Err, in the order of the Vec.
success_count(rs) == Len(SelectSeq(rs, IsOk))
error_messages(rs) == SelectSeq(rs, IsErr)

\* format!("Downloaded {} of {} files successfully.\n{}", ...)
Tally(rs) ==
    [kind |-> "tally", success_count |-> success_count(rs),
     total |-> Len(file_urls), error_messages |-> error_messages(rs)]

\* let max_concurrent = max_concurrent.unwrap_or(4);
MaxConcurrent ==
    IF max_concurrent = None THEN DefaultMaxConcurrent ELSE max_concurrent[1]

\* The filesystem before the call: the first task's own destination holds an
\* older file, nothing else exists, the working directory does.
InitFiles == [p \in PATHS |-> IF p = PathOf(1) THEN OldContent ELSE NoFile]
InitDirs == {""}

\* Tasks whose closure is running on a pool thread.
Active == {i \in Tasks : tpc[i] \in {"sent", "dirs", "file"}}
Finished == {i \in Tasks : tpc[i] = "done"}

\* Mutant of CanStart: once a task has failed no further task is started.
CanStartUnlessFailed ==
    /\ Cardinality(Active) < NumThreads
    /\ \A i \in Tasks : results[i].done => results[i].ok

\* A pool thread is free to pick up a task that has not started.
CanStart == Cardinality(Active) < NumThreads

Init ==
    /\ \E n \in 0..MaxTasks : file_urls = [i \in 1..n |-> UrlOf(i)]
    /\ output_paths \in PathVectors
    /\ max_concurrent \in KValues
    /\ pc = "entry"
    /\ client = FALSE
    /\ tpc = [i \in 1..MaxTasks |-> "pending"]
    /\ resp = [i \in 1..MaxTasks |-> 0]
    /\ gets = [i \in 1..MaxTasks |-> 0]
    /\ results = [i \in 1..MaxTasks |-> Pending]
    /\ files = InitFiles
    /\ dirs = InitDirs
    /\ ret = NoRet
    /\ CallIdle
    /\ ReqIdle

\* Mutant of CheckLengths: only too few output paths are rejected.
CheckLengthsTooFewPaths ==
    /\ pc = "entry"
    /\ IF Len(file_urls) > Len(output_paths)
       THEN pc' = "returned" /\ ret' = LengthMismatch
       ELSE pc' = "client" /\ ret' = ret
    /\ UNCHANGED <<file_urls, output_paths, max_concurrent, client, tpc, resp,
                   gets, results, files, dirs>>
    /\ UNCHANGED <<callVars, reqVars>>

\* if file_urls.len() != output_paths.len() { return "Error: ..." }
CheckLengths ==
    /\ pc = "entry"
    /\ IF Len(file_urls) # Len(output_paths)
       THEN pc' = "returned" /\ ret' = LengthMismatch
       ELSE pc' = "client" /\ ret' = ret
    /\ UNCHANGED <<file_urls, output_paths, max_concurrent, client, tpc, resp,
                   gets, results, files, dirs>>
    /\ UNCHANGED <<callVars, reqVars>>

\* let max_concurrent = max_concurrent.unwrap_or(4); GwasClient::new()
\* (always Ok).  The unwrapped value is not read again.
BuildClient ==
    /\ pc = "client"
    /\ client' = TRUE
    /\ pc' = "parallel"
    /\ UNCHANGED <<file_urls, output_paths, max_concurrent, tpc, resp, gets,
                   results, files, dirs, ret>>
    /\ UNCHANGED <<callVars, reqVars>>

\* Mutant of SendGet: the destination file is created before the GET is
\* sent, so a GET that fails leaves a truncated file behind.
SendGetAfterCreate(i) ==
    /\ pc = "parallel"
    /\ i \in Tasks
    /\ tpc[i] = "pending"
    /\ Cardinality({j \in Tasks : tpc[j] \in {"sent", "dirs", "file"}}) < NumThreads
    /\ gets' = [gets EXCEPT ![i] = @ + 1]
    /\ files' = [files EXCEPT ![output_paths[i]] = Empty]
    /\ \/ \E s \in Statuses :
             /\ resp' = [resp EXCEPT ![i] = s]
             /\ tpc' = [tpc EXCEPT ![i] = "sent"]
             /\ results' = results
       \/ /\ tpc' = [tpc EXCEPT ![i] = "done"]
          /\ results' = [results EXCEPT ![i] = ErrResult(file_urls[i], "send")]
          /\ resp' = resp
    /\ UNCHANGED <<file_urls, output_paths, max_concurrent, pc, client, dirs, ret>>
    /\ UNCHANGED <<callVars, reqVars>>

\* self.client.get(file_url).send()?
SendGet(i) ==
    /\ pc = "parallel"
    /\ i \in Tasks
    /\ tpc[i] = "pending"
    /\ CanStart
    /\ gets' = [gets EXCEPT ![i] = @ + 1]
    /\ \/ \E s \in Statuses :
             /\ resp' = [resp EXCEPT ![i] = s]
             /\ tpc' = [tpc EXCEPT ![i] = "sent"]
             /\ results' = results
       \/ /\ tpc' = [tpc EXCEPT ![i] = "done"]
          /\ results' = [results EXCEPT ![i] = ErrResult(file_urls[i], "send")]
          /\ resp' = resp
    /\ UNCHANGED <<file_urls, output_paths, max_concurrent, pc, client, files,
                   dirs, ret>>
    /\ UNCHANGED <<callVars, reqVars>>

\* if let Some(parent) = Path::new(output_path).parent() {
\*     fs::create_dir_all(parent)?; }
CreateDirs(i) ==
    /\ pc = "parallel"
    /\ i \in Tasks
    /\ tpc[i] = "sent"
    /\ \/ /\ dirs' = dirs \cup {Parent(output_paths[i])}
          /\ tpc' = [tpc EXCEPT ![i] = "dirs"]
          /\ results' = results
       \/ /\ Parent(output_paths[i]) \notin dirs
          /\ tpc' = [tpc EXCEPT ![i] = "done"]
          /\ results' = [results EXCEPT
                           ![i] = ErrResult(file_urls[i], "create_dir_all")]
          /\ dirs' = dirs
    /\ UNCHANGED <<file_urls, output_paths, max_concurrent, pc, client, resp,
                   gets, files, ret>>
    /\ UNCHANGED <<callVars, reqVars>>

\* let mut file = fs::File::create(output_path)?;
CreateFile(i) ==
    /\ pc = "parallel"
    /\ i \in Tasks
    /\ tpc[i] = "dirs"
    /\ \/ /\ files' = [files EXCEPT ![output_paths[i]] = Empty]
          /\ tpc' = [tpc EXCEPT ![i] = "file"]
          /\ results' = results
       \/ /\ tpc' = [tpc EXCEPT ![i] = "done"]
          /\ results' = [results EXCEPT ![i] = ErrResult(file_urls[i], "create")]
          /\ files' = files
    /\ UNCHANGED <<file_urls, output_paths, max_concurrent, pc, client, resp,
                   gets, dirs, ret>>
    /\ UNCHANGED <<callVars, reqVars>>

\* Mutant of CopyBody: the Result of std::io::copy is dropped.
CopyBodyUnchecked(i) ==
    /\ pc = "parallel"
    /\ i \in Tasks
    /\ tpc[i] = "file"
    /\ tpc' = [tpc EXCEPT ![i] = "done"]
    /\ \E c \in {Body(file_urls[i]), Partial(file_urls[i])} :
          files' = [files EXCEPT ![output_paths[i]] = c]
    /\ results' = [results EXCEPT ![i] = OkResult(output_paths[i])]
    /\ UNCHANGED <<file_urls, output_paths, max_concurrent, pc, client, resp,
                   gets, dirs, ret>>
    /\ UNCHANGED <<callVars, reqVars>>

\* std::io::copy(&mut response, &mut file)?; Ok(output_path.to_string())
CopyBody(i) ==
    /\ pc = "parallel"
    /\ i \in Tasks
    /\ tpc[i] = "file"
    /\ tpc' = [tpc EXCEPT ![i] = "done"]
    /\ \/ /\ files' = [files EXCEPT ![output_paths[i]] = Body(file_urls[i])]
          /\ results' = [results EXCEPT ![i] = OkResult(output_paths[i])]
       \/ /\ files' = [files EXCEPT ![output_paths[i]] = Partial(file_urls[i])]
          /\ results' = [results EXCEPT ![i] = ErrResult(file_urls[i], "copy")]
    /\ UNCHANGED <<file_urls, output_paths, max_concurrent, pc, client, resp,
                   gets, dirs, ret>>
    /\ UNCHANGED <<callVars, reqVars>>

\* .collect() returns once every closure has returned; then the loop over
\* results and the final format!.
Report ==
    /\ pc = "parallel"
    /\ Finished = Tasks
    /\ ret' = Tally(SubSeq(results, 1, NTasks))
    /\ pc' = "returned"
    /\ UNCHANGED <<file_urls, output_paths, max_concurrent, client, tpc, resp,
                   gets, results, files, dirs>>
    /\ UNCHANGED <<callVars, reqVars>>

Next ==
    \/ CheckLengths
    \/ BuildClient
    \/ \E i \in 1..MaxTasks : SendGet(i)
    \/ \E i \in 1..MaxTasks : CreateDirs(i)
    \/ \E i \in 1..MaxTasks : CreateFile(i)
    \/ \E i \in 1..MaxTasks : CopyBody(i)
    \/ Report

Spec == Init /\ [][Next]_vars

\* The operating system schedules every runnable thread, and every blocking
\* call of a task returns (reqwest's blocking client gives up after its
\* default timeout), so a step that can be taken is eventually taken.
FairSpec == Spec /\ WF_vars(Next)

(***************************************************************************)
(* One resource call: gwas_get_x -> GwasClient::new() -> client.get_x      *)
(***************************************************************************)
BatchIdle ==
    /\ file_urls = <<>> /\ output_paths = <<>> /\ max_concurrent = None
    /\ pc = "idle" /\ client = FALSE
    /\ tpc = [i \in 1..MaxTasks |-> "pending"]
    /\ resp = [i \in 1..MaxTasks |-> 0]
    /\ gets = [i \in 1..MaxTasks |-> 0]
    /\ results = [i \in 1..MaxTasks |-> Pending]
    /\ files = [p \in PATHS |-> NoFile]
    /\ dirs = {""}
    /\ ret = NoRet

ClientInit ==
    /\ BatchIdle
    /\ CallIdle
    /\ ReqIdle

\* R calls an exported function: the client is made, the parameter map and
\* the URL are built.
Call(op) ==
    /\ cpc \in {"idle", "returned"}
    /\ cop' = op
    /\ cpc' = "built"
    /\ cresp' = NoResp /\ cgets' = 0 /\ cres' = NoRes /\ cret' = NoCRet
    /\ UNCHANGED <<batchVars, reqVars>>

\* Mutant of Send: a transport error is retried once.
SendWithRetry ==
    /\ cpc = "built"
    /\ cgets' = cgets + 1
    /\ \/ \E s \in Statuses, ct \in ContentTypes, b \in Bodies :
             /\ cresp' = [status |-> s, ctype |-> ct, body |-> b]
             /\ cpc' = "sent"
             /\ cres' = cres
       \/ /\ cgets = 0
          /\ UNCHANGED <<cpc, cres, cresp>>
       \/ /\ cres' = ErrRes("transport")
          /\ cpc' = "finished"
          /\ cresp' = cresp
    /\ UNCHANGED <<cop, cret>>
    /\ UNCHANGED <<batchVars, reqVars>>

\* let response = self.client.get(url).send()?;
Send ==
    /\ cpc = "built"
    /\ cgets' = cgets + 1
    /\ \/ \E s \in Statuses, ct \in ContentTypes, b \in Bodies :
             /\ cresp' = [status |-> s, ctype |-> ct, body |-> b]
             /\ cpc' = "sent"
             /\ cres' = cres
       \/ /\ cres' = ErrRes("transport")
          /\ cpc' = "finished"
          /\ cresp' = cresp
    /\ UNCHANGED <<cop, cret>>
    /\ UNCHANGED <<batchVars, reqVars>>

\* let data: T = response.json()?; Ok(data)
Decode ==
    /\ cpc = "sent"
    /\ cres' = ResponseJson(cop, cresp)
    /\ cpc' = "finished"
    /\ UNCHANGED <<cop, cresp, cgets, cret>>
    /\ UNCHANGED <<batchVars, reqVars>>

\* The wrapper's match on the method's Result, returned to R.
Return ==
    /\ cpc = "finished"
    /\ cret' = Wrap(cop, cres)
    /\ cpc' = "returned"
    /\ UNCHANGED <<cop, cresp, cgets, cres>>
    /\ UNCHANGED <<batchVars, reqVars>>

ClientNext ==
    \/ \E op \in Ops : Call(op)
    \/ Send
    \/ Decode
    \/ Return

ClientSpec == ClientInit /\ [][ClientNext]_vars

(***************************************************************************)
(* An exported association function builds and sends its request.          *)
(***************************************************************************)
RequestInit ==
    /\ BatchIdle
    /\ CallIdle
    /\ rpc = "called" /\ rkind = None /\ rid = None /\ rpvalue = NoRange
    /\ rfn \in AssocOps
    /\ rargs \in ArgsFor(rfn)
    /\ rbase = <<>> /\ rendpoint = <<>> /\ rparams = NoParams
    /\ rurl = NoUrl /\ rgets = 0 /\ rret = "none"

\* let client = GwasClient::new(); let mut params = HashMap::new(); ...
MakeParams ==
    /\ rpc = "called"
    /\ rbase' = DefaultBase
    /\ rparams' = Params(rfn, rargs)
    /\ rpc' = "params"
    /\ UNCHANGED <<rkind, rid, rpvalue, rfn, rargs, rendpoint, rurl, rgets, rret>>
    /\ UNCHANGED <<batchVars, callVars>>

\* let endpoint = format!(..); let url = self.build_url(&endpoint, &params)?;
MakeUrl ==
    /\ rpc = "params"
    /\ rendpoint' = Endpoint(rfn, rargs.ids)
    /\ rurl' = build_url(rbase, rendpoint', rparams)
    /\ rpc' = IF rurl'.ok THEN "url" ELSE "failed"
    /\ UNCHANGED <<rkind, rid, rpvalue, rfn, rargs, rbase, rparams, rgets, rret>>
    /\ UNCHANGED <<batchVars, callVars>>

\* self.client.get(url).send()
IssueGet ==
    /\ rpc = "url"
    /\ rgets' = rgets + 1
    /\ rpc' = "sent"
    /\ UNCHANGED <<rkind, rid, rpvalue, rfn, rargs, rbase, rendpoint, rparams, rurl, rret>>
    /\ UNCHANGED <<batchVars, callVars>>

RequestNext == MakeParams \/ MakeUrl \/ IssueGet

RequestSpec == RequestInit /\ [][RequestNext]_vars

(***************************************************************************)
(* build_url on its own: a client made by new() or with_base_url(base),    *)
(* an endpoint with or without leading slashes, a parameter map.           *)
(***************************************************************************)
\* base_url values: the default and another, each with and without a
\* trailing slash, one without a scheme, and the empty string.
Bases ==
    {DefaultBase, DefaultBase \o <<"/">>,
     <<"http://localhost:8080">>, <<"http://localhost:8080", "/">>,
     <<"www.ebi.ac.uk", "/", "api">>, <<>>}

\* The endpoint of every method, written with no, one and two leading
\* slashes.
Endpoints ==
    {lead \o Tail(Endpoint(op, IdsOf(op))) :
        op \in Ops, lead \in {<<>>, <<"/">>, <<"/", "/">>}}

ParamMaps ==
    {NoParams, [k \in {"size"} |-> "10"],
     [k \in {"study_accession", "p_upper"} |->
         IF k = "p_upper" THEN "1e-5" ELSE "GCST 28"]}

UrlInit ==
    /\ BatchIdle
    /\ CallIdle
    /\ rpc = "build" /\ rkind = None /\ rid = None /\ rfn = "none"
    /\ rpvalue = NoRange
    /\ rargs = NoArgs
    /\ rbase \in Bases
    /\ rendpoint \in Endpoints
    /\ rparams \in ParamMaps
    /\ rurl = NoUrl /\ rgets = 0 /\ rret = "none"

ApplyBuildUrl ==
    /\ rpc = "build"
    /\ rurl' = build_url(rbase, rendpoint, rparams)
    /\ rpc' = "built"
    /\ UNCHANGED <<rkind, rid, rpvalue, rfn, rargs, rbase, rendpoint, rparams, rgets, rret>>
    /\ UNCHANGED <<batchVars, callVars>>

UrlNext == ApplyBuildUrl

UrlSpec == UrlInit /\ [][UrlNext]_vars

(***************************************************************************)
(* The caller-facing layer: the p-value range normalization and the        *)
(* scoped-associations entry point of the dispatch router.  The source     *)
(* file holds neither; they are modelled from the specification, over the  *)
(* association functions above.                                            *)
(***************************************************************************)
RecognizedKinds == {"variant", "chromosome", "study", "trait"}

\* Kind tags and ids a caller may pass.
KindValues == {None} \cup {Some(k) : k \in RecognizedKinds \cup {"gene"}}
IdValues == {None, Some("EFO_0001")}

AssocOpOf(kind) ==
    CASE kind = "variant" -> "get_variant_associations"
      [] kind = "chromosome" -> "get_chromosome_associations"
      [] kind = "study" -> "get_study_associations"
      [] kind = "trait" -> "get_trait_associations"

\* The ranges a caller may give: either bound present or absent.
Ranges == [min : {None, Some("1e-8")}, max : {None, Some("1e-5")}]

\* Mutant of NormalizePRange: a range without a lower bound is completed, one
\* without an upper bound is passed on as it is.
NormalizePRangeLowerOnly(r) ==
    IF r.min = None /\ r.max = None
    THEN [p_lower |-> None, p_upper |-> None]
    ELSE [p_lower |-> IF r.min = None THEN Some("0.0") ELSE r.min,
          p_upper |-> r.max]

\* A range with one bound missing is completed with "0.0" below or "1.0"
\* above; a range with no bound stays absent.
NormalizePRange(r) ==
    IF r.min = None /\ r.max = None
    THEN [p_lower |-> None, p_upper |-> None]
    ELSE [p_lower |-> IF r.min = None THEN Some("0.0") ELSE r.min,
          p_upper |-> IF r.max = None THEN Some("1.0") ELSE r.max]

InvalidScope == [ok |-> FALSE, fn |-> "none", ids |-> <<>>]

\* Mutant of ScopedAssociations: a kind without an id falls back to the
\* bare listing.
ScopedAssociationsLenient(kind, id) ==
    IF kind # None /\ id # None /\ kind[1] \in RecognizedKinds
    THEN [ok |-> TRUE, fn |-> AssocOpOf(kind[1]), ids |-> <<id[1]>>]
    ELSE IF id = None
    THEN [ok |-> TRUE, fn |-> "get_associations", ids |-> <<>>]
    ELSE InvalidScope

\* (none, none) is the bare listing, (kind, id) with a recognized kind the
\* operation of that kind, everything else InvalidScope.
ScopedAssociations(kind, id) ==
    IF kind = None /\ id = None
    THEN [ok |-> TRUE, fn |-> "get_associations", ids |-> <<>>]
    ELSE IF kind # None /\ id # None /\ kind[1] \in RecognizedKinds
    THEN [ok |-> TRUE, fn |-> AssocOpOf(kind[1]), ids |-> <<id[1]>>]
    ELSE InvalidScope

RouterInit ==
    /\ BatchIdle
    /\ CallIdle
    /\ rpc = "given"
    /\ rkind \in KindValues
    /\ rid \in IdValues
    /\ rpvalue \in Ranges
    /\ rfn = "none"
    /\ \E S \in SUBSET {"size", "reveal"} :
          rargs = [ids |-> <<>>,
                   opt |-> [f \in AllFields |-> IF f \in S THEN ValueOf(f) ELSE None]]
    /\ rbase = <<>> /\ rendpoint = <<>> /\ rparams = NoParams
    /\ rurl = NoUrl /\ rgets = 0 /\ rret = "none"

\* The p-value range is normalized before anything is built from it.
Normalize ==
    /\ rpc = "given"
    /\ LET n == NormalizePRange(rpvalue)
       IN  rargs' = [rargs EXCEPT !.opt["p_lower"] = n.p_lower,
                                  !.opt["p_upper"] = n.p_upper]
    /\ rpc' = "routing"
    /\ UNCHANGED <<rkind, rid, rpvalue, rfn, rbase, rendpoint, rparams, rurl,
                   rgets, rret>>
    /\ UNCHANGED <<batchVars, callVars>>

Route ==
    /\ rpc = "routing"
    /\ LET r == ScopedAssociations(rkind, rid)
       IN  IF r.ok
           THEN /\ rfn' = r.fn
                /\ rargs' = [rargs EXCEPT !.ids = r.ids]
                /\ rpc' = "called"
                /\ rret' = rret
           ELSE /\ rret' = "InvalidScope"
                /\ rpc' = "rejected"
                /\ UNCHANGED <<rfn, rargs>>
    /\ UNCHANGED <<rkind, rid, rpvalue, rbase, rendpoint, rparams, rurl, rgets>>
    /\ UNCHANGED <<batchVars, callVars>>

RouterNext == Normalize \/ Route \/ MakeParams \/ MakeUrl \/ IssueGet

RouterSpec == RouterInit /\ [][RouterNext]_vars

(***************************************************************************)
(* The library as R sees it: a call of the batch downloader, or resource   *)
(* calls one after another.                                                *)
(***************************************************************************)
LibraryInit == Init \/ ClientInit

\* No step of the batch downloader is enabled where pc = "idle".
LibraryNext ==
    \/ Next
    \/ \E op \in Ops : pc = "idle" /\ Call(op)
    \/ pc = "idle" /\ Send
    \/ pc = "idle" /\ Decode
    \/ pc = "idle" /\ Return

LibrarySpec == LibraryInit /\ [][LibraryNext]_vars

(***************************************************************************)
(* Properties of the batch downloader (checked under Spec and FairSpec).   *)
(***************************************************************************)
\* A status in the success range.
IsSuccess(status) == status >= 200 /\ status < 300

\* The header's value contains "application/json".
ContainsJson(ct) == ct \in JsonTypes

EqualLengths == Len(file_urls) = Len(output_paths)

Succeeded(i) == results[i].done /\ results[i].ok
Failed(i) == results[i].done /\ ~results[i].ok

BatchReturned == pc = "returned" /\ ret.kind = "tally"

DistinctPaths ==
    \A i, j \in 1..Len(output_paths) :
        i # j => output_paths[i] # output_paths[j]

\* The j-th smallest member of a set of indices.
Nth(F, j) == CHOOSE i \in F : Cardinality({k \in F : k <= i}) = j

\* C1: with a caller-supplied max_concurrent = k, the number of tasks in
\* flight never exceeds k.
C1_InFlightAtMostK ==
    max_concurrent # None => Cardinality(Active) <= MaxConcurrent

\* C2: when the batch returns for equal-length inputs, every task has exactly
\* one outcome, succeeded or failed and none pending, and the success count
\* plus the number of failure messages is the number of tasks.
C2_OneOutcomePerTask ==
    (pc = "returned" /\ EqualLengths) =>
        /\ ret.kind = "tally"
        /\ \A i \in 1..Len(file_urls) :
              /\ tpc[i] = "done"
              /\ results[i].done
              /\ Succeeded(i) # Failed(i)
              /\ Succeeded(i) <=> results[i].path = Some(output_paths[i])
              /\ Failed(i) <=> results[i].url = Some(file_urls[i])
        /\ ret.success_count = Cardinality({i \in Tasks : Succeeded(i)})
        /\ Len(ret.error_messages) = Cardinality({i \in Tasks : Failed(i)})
        /\ ret.success_count + Len(ret.error_messages) = Len(file_urls)
        /\ ret.total = Len(file_urls)

C2_Witness ==
    /\ BatchReturned
    /\ Len(file_urls) = 3
    /\ Succeeded(1) /\ Failed(2) /\ Succeeded(3)

\* C3: the batch never aborts early: for equal-length inputs, whatever tasks
\* have failed, every task is started and finishes and the call returns a
\* tally; the call returns an error only for a length mismatch.
C3_BatchCompletes ==
    /\ EqualLengths ~> (BatchReturned /\ Finished = Tasks)
    /\ [](pc = "returned" => (ret.kind = "error" <=> ~EqualLengths))

C3_Witness ==
    /\ BatchReturned
    /\ Len(file_urls) = 3
    /\ Failed(1) /\ results[1].cause = "send"
    /\ Succeeded(2) /\ Succeeded(3)

\* C4: on a length mismatch the call returns the length error having done no
\* work: no client is built, no task starts, no GET is issued and the
\* filesystem is untouched.
C4_MismatchDoesNothing ==
    ~EqualLengths =>
        /\ pc \in {"entry", "returned"}
        /\ pc = "returned" => ret = LengthMismatch
        /\ ~client
        /\ \A i \in 1..MaxTasks : gets[i] = 0 /\ tpc[i] = "pending"
        /\ files = InitFiles
        /\ dirs = InitDirs

C4_Witness ==
    /\ Len(file_urls) = 3 /\ Len(output_paths) = 2
    /\ pc = "returned"
    /\ ret = LengthMismatch

\* C5: a task whose GET received a non-success status is a failed task.
C5_BadStatusFails ==
    \A i \in Tasks :
        (tpc[i] = "done" /\ resp[i] # 0 /\ ~IsSuccess(resp[i])) => Failed(i)

\* C6: the report holds one failure message per failed task and none for a
\* succeeded one, each naming its task's URL, in the order of the task
\* indices.
C6_MessagesInIndexOrder ==
    BatchReturned =>
        LET F == {i \in Tasks : Failed(i)}
            msgs == ret.error_messages
        IN  /\ Len(msgs) = Cardinality(F)
            /\ \A j \in 1..Len(msgs) :
                  /\ msgs[j].url = Some(file_urls[Nth(F, j)])
                  /\ msgs[j].cause = results[Nth(F, j)].cause

C6_Witness ==
    /\ BatchReturned
    /\ Len(file_urls) = 3
    /\ Failed(1) /\ results[1].cause = "copy"
    /\ Succeeded(2)
    /\ Failed(3) /\ results[3].cause = "send"
    /\ Len(ret.error_messages) = 2

\* C7: with pairwise distinct destinations, once the batch has returned the
\* file at the destination of every succeeded task holds exactly the body
\* of that task's URL.
C7_SucceededFilesComplete ==
    (BatchReturned /\ DistinctPaths) =>
        \A i \in Tasks :
            Succeeded(i) => files[output_paths[i]] = Body(file_urls[i])

C7_Witness ==
    /\ BatchReturned
    /\ DistinctPaths
    /\ Len(file_urls) = 3
    /\ Succeeded(1) /\ files[PathOf(1)] = Body(UrlOf(1))
    /\ Succeeded(2) /\ Succeeded(3)

\* C17: within a task the steps come in the order GET, create_dir_all,
\* File::create, copy.  A step that fails the GET touches neither the
\* directories nor the files, and a task whose GET failed never creates a
\* directory or a file afterwards; a task is at its create_dir_all only
\* after its GET, at its File::create only with its parent directory in
\* place, at its copy only with its file created; with distinct
\* destinations a failed GET leaves the destination as it was and a failed
\* copy leaves the file created (truncated, holding at most a prefix).
C17_StepOrder ==
    /\ [](\A i \in Tasks :
            /\ tpc[i] \in {"sent", "dirs", "file"} =>
                  gets[i] = 1 /\ resp[i] # 0
            /\ tpc[i] \in {"dirs", "file"} => Parent(output_paths[i]) \in dirs
            /\ (DistinctPaths /\ tpc[i] = "file") =>
                  files[output_paths[i]] = Empty
            /\ (DistinctPaths /\ Failed(i) /\ results[i].cause = "send") =>
                  files[output_paths[i]] = InitFiles[output_paths[i]]
            /\ (DistinctPaths /\ Failed(i) /\ results[i].cause = "copy") =>
                  files[output_paths[i]] = Partial(file_urls[i]))
    /\ [][\A i \in Tasks :
            /\ (tpc[i] = "pending" /\ tpc'[i] = "done") =>
                  files' = files /\ dirs' = dirs
            /\ (files' # files \/ dirs' # dirs) =>
                  \E j \in Tasks : tpc[j] \in {"sent", "dirs", "file"}
            /\ tpc'[i] # tpc[i] =>
                  <<tpc[i], tpc'[i]>> \in
                      {<<"pending", "sent">>, <<"pending", "done">>,
                       <<"sent", "dirs">>, <<"sent", "done">>,
                       <<"dirs", "file">>, <<"dirs", "done">>,
                       <<"file", "done">>}]_vars

C17_Witness ==
    /\ BatchReturned
    /\ DistinctPaths
    /\ Failed(1) /\ results[1].cause = "send"
    /\ files[PathOf(1)] = OldContent
    /\ Failed(2) /\ results[2].cause = "copy"
    /\ files[PathOf(2)] = Partial(UrlOf(2))
    /\ "d" \in dirs

(***************************************************************************)
(* Properties of the resource calls (checked under ClientSpec).            *)
(***************************************************************************)
Responded == cpc \in {"finished", "returned"} /\ cresp.status # 0

\* C8: a resource operation fails whenever the response status is not a
\* success status, whatever the body.
C8_BadStatusIsError ==
    (Responded /\ ~IsSuccess(cresp.status)) => (cres.done /\ ~cres.ok)

\* C9: a resource operation fails when the response carries a content-type
\* that does not contain "application/json".
C9_ContentTypeChecked ==
    (Responded /\ IsSuccess(cresp.status)
        /\ cresp.ctype # None /\ ~ContainsJson(cresp.ctype))
    => (cres.done /\ ~cres.ok)

\* C10: an exported function returns a success payload only when the request
\* succeeded and the body decoded; on every failure it returns a tagged
\* error.
C10_PayloadOnlyOnSuccess ==
    (cpc = "returned" /\ cret.kind = "payload") =>
        /\ cresp.status # 0
        /\ IsSuccess(cresp.status)
        /\ cres.ok

(***************************************************************************)
(* Properties of both (checked under LibrarySpec).                         *)
(***************************************************************************)
\* C11: a resource call and a download task each issue at most one GET: none
\* is sent again after a failed attempt, and a call or task that got past
\* its send has issued exactly one.
C11_SingleGet ==
    /\ cgets <= 1
    /\ cpc \in {"sent", "finished", "returned"} => cgets = 1
    /\ \A i \in 1..MaxTasks :
          /\ gets[i] <= 1
          /\ (i \in Tasks /\ tpc[i] # "pending") => gets[i] = 1

C11_Witness ==
    /\ cpc = "returned"
    /\ cret.kind = "error" /\ cret.cause = "transport"
    /\ cgets = 1


(***************************************************************************)
(* Request construction.                                                   *)
(***************************************************************************)
\* The decimal rendering of an integer, digit by digit.
DigitChars == <<"0", "1", "2", "3", "4", "5", "6", "7", "8", "9">>

RECURSIVE Digits(_)
Digits(n) ==
    IF n < 10 THEN DigitChars[n + 1]
    ELSE Digits(n \div 10) \o DigitChars[(n % 10) + 1]

Decimal(n) == IF n < 0 THEN "-" \o Digits(-n) ELSE Digits(n)

\* The documented key of each filter field.
DocumentedKey(f) ==
    CASE f = "start" -> "start"
      [] f = "size" -> "size"
      [] f = "reveal" -> "reveal"
      [] f = "p_lower" -> "p_lower"
      [] f = "p_upper" -> "p_upper"
      [] f = "bp_lower" -> "bp_lower"
      [] f = "bp_upper" -> "bp_upper"
      [] f = "study_accession" -> "study_accession"
      [] f = "trait_name" -> "trait"

Supplied == {f \in AllFields : rargs.opt[f] # None}

\* The parameter map of the running function has been filled.
ParamsBuilt == rpc \in {"params", "url", "sent", "failed"}

\* C12: once an association function has built its parameters, the keys of
\* the map are exactly the documented keys of the fields the caller
\* supplied, each carrying the supplied value (an integer in decimal);
\* an absent field contributes no key.
C12_ParamKeys ==
    (ParamsBuilt /\ rfn \in AssocOps) =>
        /\ DOMAIN rparams = {DocumentedKey(f) : f \in Supplied}
        /\ \A f \in Supplied :
              rparams[DocumentedKey(f)] =
                 IF f \in {"start", "size", "bp_lower", "bp_upper"}
                 THEN Decimal(rargs.opt[f][1]) ELSE rargs.opt[f][1]

\* A chromosome query with the trait and a negative bp_lower supplied and
\* the study and bp_upper left out has built its parameters.
C12_Witness ==
    /\ rpc = "params"
    /\ rfn = "get_chromosome_associations"
    /\ Supplied = {"trait_name", "bp_lower", "size"}

RECURSIVE TrimEnd(_)
TrimEnd(t) ==
    IF t # <<>> /\ t[Len(t)] = "/" THEN TrimEnd(SubSeq(t, 1, Len(t) - 1)) ELSE t

RECURSIVE TrimStart(_)
TrimStart(t) == IF t # <<>> /\ Head(t) = "/" THEN TrimStart(Tail(t)) ELSE t

\* C14: a URL that build_url returns is the base and the endpoint joined by
\* exactly one slash, whether or not the base ends with slashes or the
\* endpoint starts with them.
C14_OneSlashAtJoin ==
    (rpc = "built" /\ rurl.ok) =>
        /\ rurl.origin = Head(rbase)
        /\ rurl.path = TrimEnd(Tail(rbase)) \o <<"/">> \o TrimStart(rendpoint)

\* The value a form-encoded query value stands for.
FormDecode(v) == IF v = "GCST+28" THEN "GCST 28" ELSE v

DecodedQuery == {<<q[1], FormDecode(q[2])>> : q \in rurl.query}

\* The trait-scoped request of the scenario: trait T with p_lower, p_upper
\* and size supplied and nothing else, sent.
TraitRequestSent ==
    /\ rpc = "sent"
    /\ rfn = "get_trait_associations"
    /\ Supplied = {"p_lower", "p_upper", "size"}

TraitPath ==
    Tail(DefaultBase) \o <<"/", "traits", "/", rargs.ids[1], "/", "associations">>

\* C15 as stated: the trait-scoped request goes to
\* {base}/traits/T/associations with the query pairs trait=T, p_lower,
\* p_upper and size and no others.
C15_TraitRequestWithTraitPair ==
    TraitRequestSent =>
        /\ rgets = 1
        /\ rurl.origin = Head(DefaultBase)
        /\ rurl.path = TraitPath
        /\ DecodedQuery =
              {<<"trait", rargs.ids[1]>>, <<"p_lower", rargs.opt["p_lower"][1]>>,
               <<"p_upper", rargs.opt["p_upper"][1]>>,
               <<"size", Decimal(rargs.opt["size"][1])>>}

\* C15 (amended): the trait-scoped request is one GET to
\* {base}/traits/T/associations whose query holds exactly p_lower, p_upper
\* and size; the trait appears in the path only.
C15_TraitRequest ==
    TraitRequestSent =>
        /\ rgets = 1
        /\ rurl.origin = Head(DefaultBase)
        /\ rurl.path = TraitPath
        /\ DecodedQuery =
              {<<"p_lower", rargs.opt["p_lower"][1]>>,
               <<"p_upper", rargs.opt["p_upper"][1]>>,
               <<"size", Decimal(rargs.opt["size"][1])>>}

C15_Witness == TraitRequestSent /\ rurl.ok /\ rargs.ids = <<"EFO_0001">>

(***************************************************************************)
(* Dispatch.                                                               *)
(***************************************************************************)
ScopeIsBare == rkind = None /\ rid = None
ScopeIsKind(k) == rkind = Some(k) /\ rid # None
ScopeIsValid == ScopeIsBare \/ \E k \in RecognizedKinds : ScopeIsKind(k)

Routed == rpc \in {"called", "params", "url", "sent", "failed"}

\* C16: no kind and no id routes to the bare listing; a recognized kind
\* with an id routes to that kind's association operation on that id, and
\* the request goes to that operation's path; any other combination ends
\* in InvalidScope and no request is ever issued for it.
C16_ScopeRouting ==
    /\ rpc \in {"given", "routing"} => rgets = 0 /\ rret = "none"
    /\ (Routed /\ ScopeIsBare) => rfn = "get_associations" /\ rargs.ids = <<>>
    /\ \A k \in RecognizedKinds :
          (Routed /\ ScopeIsKind(k)) =>
              /\ rfn = (CASE k = "variant" -> "get_variant_associations"
                          [] k = "chromosome" -> "get_chromosome_associations"
                          [] k = "study" -> "get_study_associations"
                          [] k = "trait" -> "get_trait_associations")
              /\ rargs.ids = <<rid[1]>>
    /\ Routed => ScopeIsValid /\ rret = "none"
    /\ rpc = "rejected" =>
          ~ScopeIsValid /\ rret = "InvalidScope" /\ rgets = 0 /\ rfn = "none"
    /\ ~ScopeIsValid => rpc \in {"given", "routing", "rejected"} /\ rgets = 0
    /\ (rpc = "sent" /\ ScopeIsBare) =>
          rurl.path = Tail(DefaultBase) \o <<"/", "associations">>
    /\ (rpc = "sent" /\ ScopeIsKind("study")) =>
          rurl.path = Tail(DefaultBase) \o <<"/", "studies", "/", rid[1], "/", "associations">>
    /\ (rpc = "sent" /\ ScopeIsKind("trait")) =>
          rurl.path = Tail(DefaultBase) \o <<"/", "traits", "/", rid[1], "/", "associations">>
    /\ (rpc = "sent" /\ ScopeIsKind("chromosome")) =>
          rurl.path = Tail(DefaultBase) \o <<"/", "chromosomes", "/", rid[1], "/", "associations">>
    /\ (rpc = "sent" /\ ScopeIsKind("variant")) =>
          rurl.path = Tail(DefaultBase) \o <<"/", "associations", "/", rid[1]>>

\* A kind given without an id has been rejected.
C16_Witness ==
    /\ rpc = "rejected"
    /\ rkind = Some("study") /\ rid = None
    /\ rret = "InvalidScope"

====
